---- MODULE Spec2Model ----
(***************************************************************************)
(* Model of build.rs of opus-codec-rs: the build script that downloads the *)
(* pinned opus source archive, verifies its SHA-256 digest, unpacks it     *)
(* incrementally, builds the library, generates bindings and emits the     *)
(* cargo link directives.                                                  *)
(*                                                                         *)
(* Abstractions.  A byte is a number in Byte.  SHA-256 is modelled as an   *)
(* ideal (collision free) streaming hash: the accumulator is folded byte   *)
(* by byte into a number that is different for different byte sequences.   *)
(* A name is a sequence of one-character strings, so that the slicing of   *)
(* unpack_archive is done by position, as in the code.  A path below       *)
(* source_dir is the sequence of its components.  The external tools       *)
(* (curl, zip, cmake, bindgen) are modelled by what build.rs observes of   *)
(* them: the chunks handed to the write callback, the entries of the       *)
(* archive, success or failure.                                            *)
(*                                                                         *)
(* Specifications.  Spec: runs of the whole script, one action per stage,  *)
(* callback or loop iteration, with the I/O faults.  SpecTree: the same    *)
(* stages over any state of source_dir.  SpecChunk: download_sources one   *)
(* statement at a time, with the mutex of the hasher.  SpecHash:           *)
(* calc_hash one read at a time.                                           *)
(***************************************************************************)
EXTENDS Integers, Sequences, FiniteSets, TLC

VARIABLES
    archive,      \* the entries the pinned archive bytes unzip to
    remote,       \* the bytes SOURCE_URL serves at present
    archive_file, \* the cache file OUT_DIR/opus-v1.3.1.zip
    tree,         \* the file system below (and including) source_dir
    pc,           \* the position of the build script
    run,          \* the number of runs started
    hasher,       \* the Sha256 in use: download_sources', or calc_hash's
    mutex,        \* the Mutex around the hasher of download_sources
    chunk,        \* the data of the write callback that is running
    reader,       \* the stream calc_hash reads, when read call by call
    transfer,     \* easy.perform(): the body still to come, the offset of fs
    zip,          \* unpack_archive: root_file and the loop index i
    log,          \* what the current run did so far (observations)
    start         \* the state of the files when the current run started

vars ==
    <<archive, remote, archive_file, tree, pc, run, hasher, mutex, chunk,
      reader, transfer, zip, log, start>>

(***************************************************************************)
(* Bounds.                                                                 *)
(***************************************************************************)
\* longest byte sequence the server may serve or the cache may hold at first
MaxLen == 2
\* runs of the build script in one behaviour
MaxRuns == 2
\* longest stream calc_hash is read from call by call
MaxStream == 3
\* the size of calc_hash's read buffer (4096 in the code), scaled down
BufLen == 2

Byte == 0..3

\* the byte sequences over {0, 1} of length at most MaxLen
Blobs == UNION {[1..n -> 0..1] : n \in 0..MaxLen}

Min(a, b) == IF a < b THEN a ELSE b

(***************************************************************************)
(* Sha256 (ideal), and calc_hash.                                          *)
(***************************************************************************)
Sha256New == 0

\* Sha256::update of one byte
UpdateByte(h, b) == 5 * h + b + 1

RECURSIVE Update(_, _)
\* Sha256::update(data): the bytes are absorbed in order
Update(h, data) ==
    IF data = <<>> THEN h
    ELSE Update(UpdateByte(h, Head(data)), Tail(data))

Finalize(h) == h

RECURSIVE CalcHashLoop(_, _)
\* the loop of calc_hash: read up to a buffer, stop at the empty read
CalcHashLoop(h, stream) ==
    LET read_bytes == Min(BufLen, Len(stream))
        bytes == SubSeq(stream, 1, read_bytes)
    IN  IF bytes = <<>> THEN h
        ELSE CalcHashLoop(Update(h, bytes),
                          SubSeq(stream, read_bytes + 1, Len(stream)))

calc_hash(stream) == CalcHashLoop(Sha256New, stream)

\* the bytes of the genuine opus-v1.3.1.zip
SourceBytes == <<1, 0>>

\* hex::decode(SOURCE_DIGEST): the digest of the genuine archive
SOURCE_DIGEST == 11

(***************************************************************************)
(* Names, paths and archives.                                              *)
(***************************************************************************)
RECURSIVE FirstSegment(_)
\* name.split("/").next(): the characters before the first "/"
FirstSegment(name) ==
    IF name = <<>> \/ Head(name) = "/" THEN <<>>
    ELSE <<Head(name)>> \o FirstSegment(Tail(name))

RECURSIVE Components(_)
\* Path::components of a relative name: its non-empty segments
Components(name) ==
    IF name = <<>> THEN <<>>
    ELSE IF Head(name) = "/" THEN Components(Tail(name))
    ELSE LET seg == FirstSegment(name)
         IN  <<seg>> \o Components(SubSeq(name, Len(seg) + 1, Len(name)))

\* ZipFile::is_dir: the name ends with a slash
is_dir(name) == name # <<>> /\ name[Len(name)] = "/"

\* mutant: the name of entry 0 is taken whole, its slash included
RootWhole(arc) == arc[1].name

\* root_file of unpack_archive: the first segment of entry 0's name
RootFile(arc) == FirstSegment(arc[1].name)

\* &file.name()[root_file.len() + 1..] is in range
CanSlice(root, name) == Len(root) + 1 <= Len(name)

\* mutant: the root segment is not cut off
dst_name_whole(root, name) == name

\* dst_name: the name from position root_file.len() + 1 on (0-based)
dst_name(root, name) == SubSeq(name, Len(root) + 2, Len(name))

\* dst_path, as the components below source_dir
dst_path(root, name) == Components(dst_name(root, name))

\* dst_path.parent(), for a path other than source_dir itself
Parent(p) == SubSeq(p, 1, Len(p) - 1)

\* a path, its parent, its parent's parent, ... up to source_dir
Ancestors(p) == {SubSeq(p, 1, k) : k \in 0..Len(p)}

Entry(n, d) == [name |-> n, data |-> d]

Hello == <<2, 1, 3, 3, 0>>

ProjectName ==
    <<"p", "r", "o", "j", "e", "c", "t", "n", "a", "m", "e", "-", "v", "1",
      ".", "0">>

\* root directory entry, then x.txt holding "hello"
ArcFixture ==
    <<Entry(<<"r", "/">>, <<>>),
      Entry(<<"r", "/", "x", ".", "t", "x", "t">>, Hello)>>

\* x.txt alone: the archive has no entry for a root directory
ArcBare == <<Entry(<<"x", ".", "t", "x", "t">>, Hello)>>

ArcProject ==
    <<Entry(ProjectName \o <<"/">>, <<>>),
      Entry(ProjectName \o <<"/", "s", "r", "c", "/", "a", ".", "c">>,
            <<1, 0, 2>>)>>

\* a directory entry, a file below it, an empty file
ArcDirs ==
    <<Entry(<<"r", "/">>, <<>>),
      Entry(<<"r", "/", "d", "/">>, <<>>),
      Entry(<<"r", "/", "d", "/", "f">>, <<0>>),
      Entry(<<"r", "/", "g">>, <<>>)>>

\* two entries of one name: the zip format and ZipArchive allow it
ArcDup ==
    <<Entry(<<"r", "/">>, <<>>),
      Entry(<<"r", "/", "f">>, <<0>>),
      Entry(<<"r", "/", "f">>, <<1>>)>>

\* a file entry whose path is also the directory of a later entry
ArcClash ==
    <<Entry(<<"r", "/">>, <<>>),
      Entry(<<"r", "/", "f">>, <<0>>),
      Entry(<<"r", "/", "f", "/", "g">>, <<1>>)>>

\* a later entry shorter than the root segment
ArcShort ==
    <<Entry(<<"a", "b", "/">>, <<>>),
      Entry(<<"c">>, <<1>>)>>

Archives ==
    {ArcFixture, ArcBare, ArcProject, ArcDirs, ArcDup, ArcClash, ArcShort}

\* the entries the loop of unpack_archive visits
Later(arc) == {i \in 2..Len(arc) : CanSlice(RootFile(arc), arc[i].name)}

DstOf(arc, i) == dst_path(RootFile(arc), arc[i].name)

\* every path unpack_archive may touch for this archive
Paths(arc) == UNION {Ancestors(DstOf(arc, i)) : i \in Later(arc)} \cup {<<>>}

(***************************************************************************)
(* The file system below source_dir.                                       *)
(***************************************************************************)
NoNode == [kind |-> "none", data |-> <<>>]
DirNode == [kind |-> "dir", data |-> <<>>]
FileNode(d) == [kind |-> "file", data |-> d]

\* Path::exists
Exists(t, p) == t[p].kind # "none"

\* create_dir_all(p) succeeds: no component is a file
CanCreateDirAll(t, p) == \A q \in Ancestors(p) : t[q].kind # "file"

create_dir_all(t, p) ==
    [q \in DOMAIN t |-> IF q \in Ancestors(p) THEN DirNode ELSE t[q]]

\* File::create(p) succeeds: the parent is a directory, p is no directory
CanCreate(t, p) ==
    /\ p # <<>>
    /\ t[Parent(p)].kind = "dir"
    /\ t[p].kind # "dir"

\* File::create(p) then io::copy of the bytes d into it
WriteFile(t, p, d) == [t EXCEPT ![p] = FileNode(d)]

\* fs::remove_file(p)
remove_file(t, p) == [t EXCEPT ![p] = NoNode]

\* a path exists only below directories
Consistent(t) ==
    \A p \in DOMAIN t : p # <<>> /\ Exists(t, p) => t[Parent(p)].kind = "dir"

(***************************************************************************)
(* The observations of a run, and the snapshot taken when it starts.       *)
(***************************************************************************)
\* the marker of archive_file among the rerun-if-changed signals
ArchiveSignal == <<<<"opus-v1.3.1.zip">>>>

NewLog ==
    [stages |-> <<>>,     \* the stages started, in order
     done |-> <<>>,       \* the stages that returned Ok, in order
     fetch |-> "none",    \* download_sources: hit, downloaded, mismatch, error
     netCalls |-> 0,      \* transfers started
     cacheOpens |-> 0,    \* archive_file opened for writing
     received |-> <<>>,   \* the bytes handed to the write callback
     written |-> <<>>,    \* the bytes fs.write_all has written
     digest |-> <<>>,     \* the digest compared with the pinned one
     unpacked |-> FALSE,  \* unpack_archive returned Ok
     removed |-> 0,       \* fs::remove_file calls below source_dir
     created |-> 0,       \* File::create calls below source_dir
     mkdirs |-> 0,        \* directories created
     signals |-> {},      \* cargo:rerun-if-changed lines
     builds |-> 0,        \* calls of the builder (cmake)
     bindgens |-> 0,      \* calls of the binding generator
     links |-> 0,         \* link directives emitted
     fault |-> "none",    \* the I/O fault that ended the run, if one did
     result |-> "none"]   \* of the run: none, running, ok, failed

Snapshot ==
    [archive_file |-> archive_file,
     tree |-> tree,
     remote |-> remote,
     prevGenuine |-> (start.remote = SourceBytes),
     prevUnpacked |-> log.unpacked,
     prevFetch |-> log.fetch,
     prevResult |-> log.result]

\* calc_hash is not being read call by call
NoReader == [stream |-> <<>>, rest |-> <<>>, reads |-> 0, failed |-> FALSE,
             result |-> "none"]

NoFile == [exists |-> FALSE, data |-> <<>>]
CacheFile(d) == [exists |-> TRUE, data |-> d]

\* no transfer is in progress: hasher, easy and fs are dropped
NoTransfer == [body |-> <<>>, pos |-> 0]

\* the run ends in an error or a panic: nothing is rolled back
Abort(l) == [l EXCEPT !.result = "failed"]

(***************************************************************************)
(* download_sources.                                                       *)
(***************************************************************************)
\* mutant: the cached file is never taken (the early return is lost)
CacheHitNever(f) == FALSE

\* mutant: any existing file is taken as the cached archive
CacheHitByExistence(f) == f.exists

\* lines 123-128: the cached archive has the pinned digest
CacheHit(f) == f.exists /\ Finalize(calc_hash(f.data)) = SOURCE_DIGEST

\* mutant: the file is opened without truncate(true)
OpenKeep(f) == IF f.exists THEN f ELSE CacheFile(<<>>)

\* OpenOptions write + create + truncate: the file is emptied
OpenTruncate(f) == CacheFile(<<>>)

\* mutant: every chunk is written at the start of the file
WriteAtStart(d, pos, data) == data \o SubSeq(d, Len(data) + 1, Len(d))

\* fs.write_all(data) at the offset pos of the file
WriteAt(d, pos, data) ==
    SubSeq(d, 1, pos) \o data \o SubSeq(d, pos + Len(data) + 1, Len(d))

\* mutant: the digest is computed and not compared
DigestUnchecked(h) == TRUE

\* lines 148-158: the digest of the bytes received is the pinned one
DigestOk(h) == SOURCE_DIGEST = Finalize(h)

\* main (lines 17-23) calls download_sources, which runs up to
\* easy.perform() (lines 118-146) or returns at the cache hit
DownloadSources ==
    /\ pc = "idle"
    /\ run < MaxRuns
    /\ run' = run + 1
    /\ start' = Snapshot
    /\ LET l == [NewLog EXCEPT !.stages = <<"fetch">>,
                               !.signals = {ArchiveSignal},
                               !.result = "running"]
       IN  IF CacheHit(archive_file)
           THEN /\ log' = [l EXCEPT !.fetch = "hit", !.done = <<"fetch">>]
                /\ pc' = "unpack_archive"
                /\ UNCHANGED <<archive_file, hasher, transfer>>
           ELSE /\ log' = [l EXCEPT !.netCalls = 1, !.cacheOpens = 1]
                /\ archive_file' = OpenTruncate(archive_file)
                /\ hasher' = Sha256New
                /\ transfer' = [body |-> remote, pos |-> 0]
                /\ pc' = "perform"
    /\ UNCHANGED <<mutex, chunk, reader>>
    /\ UNCHANGED <<archive, remote, tree, zip>>

\* the closure of easy.write_function (lines 141-145) on a chunk of n bytes
WriteFunction(n) ==
    /\ pc = "perform"
    /\ n \in 1..Len(transfer.body)
    /\ LET data == SubSeq(transfer.body, 1, n)
       IN  /\ hasher' = Update(hasher, data)
           /\ archive_file' =
                  CacheFile(WriteAt(archive_file.data, transfer.pos, data))
           /\ transfer' =
                  [body |-> SubSeq(transfer.body, n + 1, Len(transfer.body)),
                   pos |-> transfer.pos + n]
           /\ log' = [log EXCEPT !.received = @ \o data,
                                 !.written = @ \o data]
    /\ UNCHANGED <<mutex, chunk, reader>>
    /\ UNCHANGED <<archive, remote, tree, pc, run, zip, start>>

\* the closure when fs.write_all fails after k < n bytes: the chunk has
\* been hashed, unwrap panics, and the hasher is dropped with the run
WriteFunctionPanics(n, k) ==
    /\ pc = "perform"
    /\ n \in 1..Len(transfer.body)
    /\ k \in 0..(n - 1)
    /\ LET data == SubSeq(transfer.body, 1, n)
       IN  /\ archive_file' =
                  CacheFile(WriteAt(archive_file.data, transfer.pos,
                                    SubSeq(data, 1, k)))
           /\ log' = Abort([log EXCEPT !.received = @ \o data,
                                       !.written = @ \o SubSeq(data, 1, k),
                                       !.fetch = "error",
                                       !.fault = "write"])
    /\ hasher' = Sha256New
    /\ transfer' = NoTransfer
    /\ pc' = "idle"
    /\ UNCHANGED <<mutex, chunk, reader>>
    /\ UNCHANGED <<archive, remote, tree, run, zip, start>>

\* mutant: after a transport error the transfer is started again
PerformRetries ==
    /\ pc = "perform"
    /\ log.netCalls < 2
    /\ log' = [log EXCEPT !.netCalls = @ + 1, !.received = <<>>,
                          !.written = <<>>]
    /\ archive_file' = OpenTruncate(archive_file)
    /\ hasher' = Sha256New
    /\ transfer' = [body |-> remote, pos |-> 0]
    /\ UNCHANGED <<mutex, chunk, reader>>
    /\ UNCHANGED <<archive, remote, tree, pc, run, zip, start>>

\* easy.perform()? returns a transport error (line 146)
PerformFails ==
    /\ pc = "perform"
    /\ log' = Abort([log EXCEPT !.fetch = "error", !.fault = "transport"])
    /\ hasher' = Sha256New
    /\ transfer' = NoTransfer
    /\ pc' = "idle"
    /\ UNCHANGED <<mutex, chunk, reader>>
    /\ UNCHANGED <<archive, remote, archive_file, tree, run, zip, start>>

\* easy.perform() returns Ok: the digest is compared (lines 146-158)
VerifyDigest ==
    /\ pc = "perform"
    /\ transfer.body = <<>>
    /\ LET l == [log EXCEPT !.digest = <<Finalize(hasher)>>]
       IN  IF DigestOk(hasher)
           THEN /\ log' = [l EXCEPT !.fetch = "downloaded",
                                    !.done = <<"fetch">>]
                /\ pc' = "unpack_archive"
           ELSE /\ log' = Abort([l EXCEPT !.fetch = "mismatch"])
                /\ pc' = "idle"
    /\ hasher' = Sha256New
    /\ transfer' = NoTransfer
    /\ UNCHANGED <<mutex, chunk, reader>>
    /\ UNCHANGED <<archive, remote, archive_file, tree, run, zip, start>>

\* the content behind SOURCE_URL changes between two runs
AlterFixture(b) ==
    /\ pc = "idle"
    /\ log.result \in {"ok", "failed"}
    /\ run < MaxRuns
    /\ b # remote
    /\ remote' = b
    /\ UNCHANGED <<mutex, chunk, reader>>
    /\ UNCHANGED <<archive, archive_file, tree, pc, run, hasher, transfer,
                   zip, log, start>>

(***************************************************************************)
(* unpack_archive.                                                         *)
(***************************************************************************)
\* ZipArchive::new(File::open(archive_file)): only the genuine bytes are
\* known to unzip, and they unzip to the entries of archive
ZipOk(f) == f.exists /\ f.data = SourceBytes

\* mutant: the entry is not opened again, and io::copy reads what
\* target_hash left of it
CopyRemainder(e, hashed) == IF hashed THEN <<>> ELSE e.data

\* the bytes io::copy reads from the entry: the entry is opened again
\* (lines 99-100) after target_hash has read it to its end
CopySource(e, hashed) == e.data

\* mutant: an existing file is never replaced
StaleNever(cur, e) == FALSE

\* mutant: an existing file is always replaced
StaleAlways(cur, e) == TRUE

\* the existing file differs from the entry (lines 92-94)
Stale(cur, e) == Finalize(calc_hash(cur)) # Finalize(calc_hash(e.data))

\* mutant: the directory is created by create_dir without a look at
\* dst_path.exists(), which fails on an existing directory
EnsureDirNew(t, p) ==
    IF ~Exists(t, p) /\ CanCreateDirAll(t, p)
    THEN [err |-> FALSE, tree |-> create_dir_all(t, p)]
    ELSE [err |-> TRUE, tree |-> t]

\* lines 87-89 for a directory entry: its name ends with a slash, so that
\* exists() is true of a directory only, and create_dir_all fails on a
\* file
EnsureDir(t, p) ==
    IF t[p].kind = "dir" THEN [err |-> FALSE, tree |-> t]
    ELSE IF CanCreateDirAll(t, p)
    THEN [err |-> FALSE, tree |-> create_dir_all(t, p)]
    ELSE [err |-> TRUE, tree |-> t]

\* lines 79-97 for the entry e: the parent directories, the directory of
\* a directory entry, the removal of a stale file.  err: a step failed and
\* unpack_archive returns the error; write: the file is to be created
Prepare(t, root, e) ==
    LET p == dst_path(root, e.name)
        needParent == p # <<>> /\ ~Exists(t, Parent(p))
        t1 == IF needParent /\ CanCreateDirAll(t, Parent(p))
              THEN create_dir_all(t, Parent(p)) ELSE t
        Res(err, t2, removed, hashed, write) ==
            [err |-> err, tree |-> t2, removed |-> removed,
             hashed |-> hashed, write |-> write]
    IN  IF needParent /\ ~CanCreateDirAll(t, Parent(p))
        THEN Res(TRUE, t, FALSE, FALSE, FALSE)
        ELSE IF is_dir(e.name)
        THEN LET d == EnsureDir(t1, p)
             IN  Res(d.err, d.tree, FALSE, FALSE, FALSE)
        ELSE IF ~Exists(t1, p)
        THEN Res(~CanCreate(t1, p), t1, FALSE, FALSE, TRUE)
        ELSE IF t1[p].kind = "dir"
        THEN Res(TRUE, t1, FALSE, FALSE, FALSE)
        ELSE IF Stale(t1[p].data, e)
        THEN Res(FALSE, remove_file(t1, p), TRUE, TRUE, TRUE)
        ELSE Res(FALSE, t1, FALSE, TRUE, FALSE)

\* mutant: only a file written in this run is watched
WatchWritten(e, p, write) == IF is_dir(e.name) \/ ~write THEN {} ELSE {p}

\* line 106: the destination of a file entry is watched, written or not
Watch(e, p, write) == IF is_dir(e.name) THEN {} ELSE {p}

\* the directories of t2 that t does not have
NewDirs(t, t2) ==
    Cardinality({q \in DOMAIN t : t2[q].kind = "dir" /\ t[q].kind # "dir"})

\* where the loop of line 77 goes after entry i (1-based)
AfterEntry(i) == IF i + 1 > Len(archive) THEN "build_library" ELSE "unpack_entry"

\* the log when entry i was the last one: unpack_archive returns Ok
Returned(l, i) ==
    IF AfterEntry(i) = "build_library"
    THEN [l EXCEPT !.unpacked = TRUE, !.done = Append(@, "unpack")]
    ELSE l

\* lines 61-75: source_dir, the archive, root_file; an archive of one
\* entry has no iteration, and unpack_archive returns Ok
UnpackArchive ==
    /\ pc = "unpack_archive"
    /\ LET t1 == IF Exists(tree, <<>>) THEN tree
                 ELSE create_dir_all(tree, <<>>)
           l == [log EXCEPT !.stages = Append(@, "unpack"),
                            !.mkdirs = @ + NewDirs(tree, t1)]
       IN  /\ tree' = t1
           /\ IF ZipOk(archive_file) /\ Len(archive) >= 1
              THEN /\ zip' = [root_file |-> RootFile(archive), i |-> 2]
                   /\ pc' = AfterEntry(1)
                   /\ log' = Returned(l, 1)
              ELSE /\ zip' = zip
                   /\ pc' = "idle"
                   /\ log' = Abort(l)
    /\ UNCHANGED <<mutex, chunk, reader>>
    /\ UNCHANGED <<archive, remote, archive_file, run, hasher, transfer, start>>

\* one iteration of the loop (lines 78-107)
UnpackEntry ==
    /\ pc = "unpack_entry"
    /\ LET e == archive[zip.i]
           p == dst_path(zip.root_file, e.name)
           r == Prepare(tree, zip.root_file, e)
       IN  IF ~CanSlice(zip.root_file, e.name) \/ r.err
           THEN \* the slice panics, or a step returns an error
                /\ tree' = IF CanSlice(zip.root_file, e.name) THEN r.tree
                           ELSE tree
                /\ log' = Abort(log)
                /\ pc' = "idle"
                /\ zip' = zip
           ELSE /\ tree' = IF r.write
                           THEN WriteFile(r.tree, p, CopySource(e, r.hashed))
                           ELSE r.tree
                /\ log' = Returned([log EXCEPT
                       !.removed = @ + (IF r.removed THEN 1 ELSE 0),
                       !.created = @ + (IF r.write THEN 1 ELSE 0),
                       !.mkdirs = @ + NewDirs(tree, r.tree),
                       !.signals = @ \cup Watch(e, p, r.write)],
                       zip.i)
                /\ zip' = [zip EXCEPT !.i = @ + 1]
                /\ pc' = AfterEntry(zip.i)
    /\ UNCHANGED <<mutex, chunk, reader>>
    /\ UNCHANGED <<archive, remote, archive_file, run, hasher, transfer, start>>

\* io::copy fails after k bytes of the entry (line 103): the error is
\* returned and the partly written file stays
CopyFails(k) ==
    /\ pc = "unpack_entry"
    /\ CanSlice(zip.root_file, archive[zip.i].name)
    /\ LET e == archive[zip.i]
           p == dst_path(zip.root_file, e.name)
           r == Prepare(tree, zip.root_file, e)
       IN  /\ ~r.err
           /\ r.write
           /\ k \in 0..(Len(e.data) - 1)
           /\ tree' = WriteFile(r.tree, p, SubSeq(CopySource(e, r.hashed), 1, k))
           /\ log' = Abort([log EXCEPT
                  !.removed = @ + (IF r.removed THEN 1 ELSE 0),
                  !.created = @ + 1,
                  !.mkdirs = @ + NewDirs(tree, r.tree),
                  !.fault = "copy"])
    /\ pc' = "idle"
    /\ UNCHANGED <<mutex, chunk, reader>>
    /\ UNCHANGED <<archive, remote, archive_file, run, hasher, transfer, zip,
                   start>>

\* the build script is killed between two entries of the loop of
\* unpack_archive: what it has written stays
Interrupted ==
    /\ pc = "unpack_entry"
    /\ log' = Abort([log EXCEPT !.fault = "killed"])
    /\ pc' = "idle"
    /\ UNCHANGED <<mutex, chunk, reader>>
    /\ UNCHANGED <<archive, remote, archive_file, tree, run, hasher, transfer,
                   zip, start>>

(***************************************************************************)
(* build_library, generate_bindings, link_library.                         *)
(***************************************************************************)
\* mutant: a failed build is not fatal, the bindings are generated anyway
BuildLibraryGoesOn(ok) ==
    /\ pc = "build_library"
    /\ log' = [log EXCEPT !.stages = Append(@, "build"), !.builds = @ + 1,
                          !.done = IF ok THEN Append(@, "build") ELSE @]
    /\ pc' = "generate_bindings"
    /\ UNCHANGED <<mutex, chunk, reader>>
    /\ UNCHANGED <<archive, remote, archive_file, tree, run, hasher, transfer,
                   zip, start>>

\* line 25: cmake builds (and panics when the build fails)
BuildLibrary(ok) ==
    /\ pc = "build_library"
    /\ log' = LET l == [log EXCEPT !.stages = Append(@, "build"),
                                   !.builds = @ + 1]
              IN  IF ok THEN [l EXCEPT !.done = Append(@, "build")]
                  ELSE Abort(l)
    /\ pc' = IF ok THEN "generate_bindings" ELSE "idle"
    /\ UNCHANGED <<mutex, chunk, reader>>
    /\ UNCHANGED <<archive, remote, archive_file, tree, run, hasher, transfer,
                   zip, start>>

\* line 26: bindgen generates and writes the bindings (unwrap panics)
GenerateBindings(ok) ==
    /\ pc = "generate_bindings"
    /\ log' = LET l == [log EXCEPT !.stages = Append(@, "bindings"),
                                   !.bindgens = @ + 1]
              IN  IF ok THEN [l EXCEPT !.done = Append(@, "bindings")]
                  ELSE Abort(l)
    /\ pc' = IF ok THEN "link_library" ELSE "idle"
    /\ UNCHANGED <<mutex, chunk, reader>>
    /\ UNCHANGED <<archive, remote, archive_file, tree, run, hasher, transfer,
                   zip, start>>

\* lines 27-29: the link directives are printed and main returns Ok
LinkLibrary ==
    /\ pc = "link_library"
    /\ log' = [log EXCEPT !.stages = Append(@, "link"),
                          !.done = Append(@, "link"),
                          !.links = @ + 1,
                          !.result = "ok"]
    /\ pc' = "idle"
    /\ UNCHANGED <<mutex, chunk, reader>>
    /\ UNCHANGED <<archive, remote, archive_file, tree, run, hasher, transfer,
                   zip, start>>

(***************************************************************************)
(* The specifications.                                                     *)
(***************************************************************************)
\* a path below source_dir that no entry of the archives has: what another
\* version of the archive may have left there
LeftOver == <<<<"o", "l", "d">>>>

\* the paths of the model's file system
Under(arc) == Paths(arc) \cup {LeftOver}

EmptyTree(arc) == [p \in Under(arc) |-> NoNode]

NoZip == [root_file |-> <<>>, i |-> 0]

\* the first run of a build: any archive behind the pinned digest, any
\* content behind the URL, any file (or none) where the cache goes, and
\* nothing unpacked yet
Init ==
    /\ archive \in Archives
    /\ remote \in Blobs
    /\ archive_file \in {NoFile} \cup {CacheFile(b) : b \in Blobs}
    /\ tree = EmptyTree(archive)
    /\ pc = "idle"
    /\ run = 0
    /\ hasher = Sha256New
    /\ mutex = "unlocked"
    /\ chunk = <<>>
    /\ reader = NoReader
    /\ transfer = NoTransfer
    /\ zip = NoZip
    /\ log = NewLog
    /\ start = [archive_file |-> archive_file, tree |-> tree,
                remote |-> remote, prevGenuine |-> FALSE,
                prevUnpacked |-> FALSE,
                prevFetch |-> "none", prevResult |-> "none"]

Fetch ==
    \/ \E n \in 1..MaxLen : WriteFunction(n)
    \/ \E n \in 1..MaxLen : \E k \in 0..MaxLen : WriteFunctionPanics(n, k)
    \/ PerformFails
    \/ VerifyDigest
    \/ \E b \in Blobs : AlterFixture(b)

Pipeline ==
    \/ DownloadSources
    \/ UnpackArchive
    \/ UnpackEntry
    \/ \E k \in 0..Len(Hello) : CopyFails(k)
    \/ Interrupted
    \/ \E ok \in BOOLEAN : BuildLibrary(ok)
    \/ \E ok \in BOOLEAN : GenerateBindings(ok)
    \/ LinkLibrary

Next == Fetch \/ Pipeline

Spec == Init /\ [][Next]_vars

\* what a file below source_dir may hold before the first run
Nodes(arc) ==
    {NoNode, DirNode}
        \cup {FileNode(d) : d \in Blobs \cup {arc[i].data : i \in 1..Len(arc)}}

\* what the left-over path may be before the first run
LeftOverNodes == {NoNode, DirNode, FileNode(<<3>>)}

\* the tree t, and n at the left-over path when source_dir is a directory
WithLeftOver(t, n) ==
    [p \in Under(archive) |->
        IF p # LeftOver THEN t[p]
        ELSE IF t[<<>>].kind = "dir" THEN n ELSE NoNode]

\* unpack_archive against any state of source_dir: the cache holds the
\* genuine archive, so that download_sources returns at the cache hit
InitTree ==
    /\ archive \in Archives
    /\ remote = SourceBytes
    /\ archive_file = CacheFile(SourceBytes)
    /\ tree \in {WithLeftOver(t, n) :
                      t \in {u \in [Paths(archive) -> Nodes(archive)] :
                                 Consistent(u)},
                      n \in LeftOverNodes}
    /\ pc = "idle"
    /\ run = 0
    /\ hasher = Sha256New
    /\ mutex = "unlocked"
    /\ chunk = <<>>
    /\ reader = NoReader
    /\ transfer = NoTransfer
    /\ zip = NoZip
    /\ log = NewLog
    /\ start = [archive_file |-> archive_file, tree |-> tree,
                remote |-> remote, prevGenuine |-> FALSE,
                prevUnpacked |-> FALSE,
                prevFetch |-> "none", prevResult |-> "none"]

SpecTree == InitTree /\ [][Pipeline]_vars

(***************************************************************************)
(* calc_hash, one call of fs.read at a time: a call may return fewer      *)
(* bytes than the buffer holds, or an error.                               *)
(***************************************************************************)
Streams == UNION {[1..n -> Byte] : n \in 0..MaxStream}

\* line 165: fs.read returns the next n bytes, and line 170 feeds them
Read(n) ==
    /\ pc = "calc_hash"
    /\ reader.result = "reading"
    /\ n \in 1..Min(BufLen, Len(reader.rest))
    /\ hasher' = Update(hasher, SubSeq(reader.rest, 1, n))
    /\ reader' = [reader EXCEPT
           !.rest = SubSeq(@, n + 1, Len(@)),
           !.reads = @ + 1]
    /\ UNCHANGED <<mutex, chunk>>
    /\ UNCHANGED <<archive, remote, archive_file, tree, pc, run, transfer,
                   zip, log, start>>

\* lines 165-172: fs.read returns no byte at the end of the stream, the
\* loop breaks and calc_hash returns Ok(hasher)
ReadEnd ==
    /\ pc = "calc_hash"
    /\ reader.result = "reading"
    /\ reader.rest = <<>>
    /\ reader' = [reader EXCEPT !.reads = @ + 1, !.result = "ok"]
    /\ UNCHANGED <<mutex, chunk>>
    /\ UNCHANGED <<archive, remote, archive_file, tree, pc, run, hasher,
                   transfer, zip, log, start>>

\* mutant: a failed read is taken for the end of the stream
ReadErrorMasked(r) == [r EXCEPT !.failed = TRUE, !.result = "ok"]

\* line 165: fs.read(&mut buffer)? returns the error of the read
ReadError(r) == [r EXCEPT !.failed = TRUE, !.result = "err"]

\* a call of fs.read fails, at any point of the stream
ReadFails ==
    /\ pc = "calc_hash"
    /\ reader.result = "reading"
    /\ reader' = ReadError(reader)
    /\ UNCHANGED <<mutex, chunk>>
    /\ UNCHANGED <<archive, remote, archive_file, tree, pc, run, hasher,
                   transfer, zip, log, start>>

\* calc_hash is called on any stream
InitHash ==
    /\ archive = ArcFixture
    /\ remote = SourceBytes
    /\ archive_file = NoFile
    /\ tree = EmptyTree(archive)
    /\ pc = "calc_hash"
    /\ run = 0
    /\ hasher = Sha256New
    /\ mutex = "unlocked"
    /\ chunk = <<>>
    /\ reader \in {[stream |-> b, rest |-> b, reads |-> 0, failed |-> FALSE,
                     result |-> "reading"] : b \in Streams}
    /\ transfer = NoTransfer
    /\ zip = NoZip
    /\ log = NewLog
    /\ start = [archive_file |-> archive_file, tree |-> tree,
                remote |-> remote, prevGenuine |-> FALSE,
                prevUnpacked |-> FALSE,
                prevFetch |-> "none", prevResult |-> "none"]

NextHash ==
    \/ \E n \in 1..BufLen : Read(n)
    \/ ReadEnd
    \/ ReadFails

SpecHash == InitHash /\ [][NextHash]_vars

(***************************************************************************)
(* download_sources, one statement at a time: the write callback locks,    *)
(* updates, unlocks and writes (lines 142-144), and line 148 locks and     *)
(* reads the hasher after easy.perform() has returned.                     *)
(***************************************************************************)
\* mutant: the guard is kept alive after its statement, and the lock with it
GuardKept(m) == m

\* the MutexGuard of lines 142 and 148 is a temporary: it is dropped, and
\* the lock released, at the end of its statement
GuardDropped(m) == "unlocked"

\* curl calls the closure with the next n bytes, and hasher2.lock()
\* (line 142) returns the guard; on a locked mutex it would never return
CallbackLock(n) ==
    /\ pc = "perform"
    /\ n \in 1..Len(transfer.body)
    /\ mutex = "unlocked"
    /\ mutex' = "locked"
    /\ chunk' = SubSeq(transfer.body, 1, n)
    /\ transfer' = [transfer EXCEPT !.body = SubSeq(@, n + 1, Len(@))]
    /\ log' = [log EXCEPT !.received = @ \o chunk']
    /\ pc' = "update"
    /\ UNCHANGED <<archive, remote, archive_file, tree, run, hasher, reader,
                   zip, start>>

\* mutant: the chunk is written and not hashed
CallbackUpdateNothing ==
    /\ pc = "update"
    /\ pc' = "unlock"
    /\ UNCHANGED <<archive, remote, archive_file, tree, run, hasher, mutex,
                   chunk, reader, transfer, zip, log, start>>

\* line 142: update(&data) through the guard
CallbackUpdate ==
    /\ pc = "update"
    /\ hasher' = Update(hasher, chunk)
    /\ pc' = "unlock"
    /\ UNCHANGED <<archive, remote, archive_file, tree, run, mutex, chunk,
                   reader, transfer, zip, log, start>>

\* the end of the statement of line 142
CallbackUnlock ==
    /\ pc = "unlock"
    /\ mutex' = GuardDropped(mutex)
    /\ pc' = "write_all"
    /\ UNCHANGED <<archive, remote, archive_file, tree, run, hasher, chunk,
                   reader, transfer, zip, log, start>>

\* lines 143-144: fs.write_all(&data) and the closure returns
CallbackWrite ==
    /\ pc = "write_all"
    /\ archive_file' =
           CacheFile(WriteAt(archive_file.data, transfer.pos, chunk))
    /\ transfer' = [transfer EXCEPT !.pos = @ + Len(chunk)]
    /\ log' = [log EXCEPT !.written = @ \o chunk]
    /\ chunk' = <<>>
    /\ pc' = "perform"
    /\ UNCHANGED <<archive, remote, tree, run, hasher, mutex, reader, zip,
                   start>>

\* line 143: fs.write_all fails after k bytes and unwrap panics
CallbackWritePanics(k) ==
    /\ pc = "write_all"
    /\ k \in 0..(Len(chunk) - 1)
    /\ archive_file' =
           CacheFile(WriteAt(archive_file.data, transfer.pos,
                             SubSeq(chunk, 1, k)))
    /\ log' = Abort([log EXCEPT !.written = @ \o SubSeq(chunk, 1, k),
                                !.fetch = "error",
                                !.fault = "write"])
    /\ hasher' = Sha256New
    /\ transfer' = NoTransfer
    /\ chunk' = <<>>
    /\ pc' = "idle"
    /\ UNCHANGED <<archive, remote, tree, run, mutex, reader, zip, start>>

\* easy.perform() has returned Ok, and hasher.lock() (line 148) returns
\* the guard; on a locked mutex it would never return
FinalizeLock ==
    /\ pc = "perform"
    /\ transfer.body = <<>>
    /\ mutex = "unlocked"
    /\ mutex' = "locked"
    /\ pc' = "finalize"
    /\ UNCHANGED <<archive, remote, archive_file, tree, run, hasher, chunk,
                   reader, transfer, zip, log, start>>

\* lines 148-158: clone().finalize() through the guard, the end of the
\* statement, and the comparison
FinalizeRead ==
    /\ pc = "finalize"
    /\ mutex' = GuardDropped(mutex)
    /\ LET l == [log EXCEPT !.digest = <<Finalize(hasher)>>]
       IN  IF DigestOk(hasher)
           THEN /\ log' = [l EXCEPT !.fetch = "downloaded",
                                    !.done = <<"fetch">>]
                /\ pc' = "unpack_archive"
           ELSE /\ log' = Abort([l EXCEPT !.fetch = "mismatch"])
                /\ pc' = "idle"
    /\ hasher' = Sha256New
    /\ transfer' = NoTransfer
    /\ UNCHANGED <<archive, remote, archive_file, tree, run, chunk, reader,
                   zip, start>>

NextChunk ==
    \/ DownloadSources
    \/ \E n \in 1..MaxLen : CallbackLock(n)
    \/ CallbackUpdate
    \/ CallbackUnlock
    \/ CallbackWrite
    \/ \E k \in 0..MaxLen : CallbackWritePanics(k)
    \/ PerformFails
    \/ FinalizeLock
    \/ FinalizeRead

SpecChunk == Init /\ [][NextChunk]_vars

(***************************************************************************)
(* The properties.                                                         *)
(***************************************************************************)
\* the digest of a byte sequence hashed in one piece
Digest(d) == Finalize(Update(Sha256New, d))

Pinned(f) == f.exists /\ Digest(f.data) = SOURCE_DIGEST

\* a run has started, and log and start are those of that run
Started == log.result # "none"

\* easy.perform() has delivered the whole body
TransferComplete ==
    \/ log.fetch \in {"downloaded", "mismatch"}
    \/ pc = "perform" /\ transfer.body = <<>>

\* C1: tamper detection.  Whenever the bytes a download received have a
\* digest other than the pinned one, download_sources has not returned
\* Ok: no later stage was started and the run does not end in success,
\* whatever the cache file held before.
C1_TamperDetection ==
    Started /\ log.netCalls > 0 /\ Digest(log.received) # SOURCE_DIGEST
        => /\ log.fetch \notin {"downloaded", "hit"}
           /\ log.done = <<>>
           /\ log.stages = <<"fetch">>
           /\ log.result # "ok"

\* a download over an existing cache file delivered all of a tampered
\* body, and the digest comparison ended the run
C1_Witness ==
    /\ log.fetch = "mismatch"
    /\ start.archive_file.exists
    /\ log.received = start.remote
    /\ Len(log.received) = MaxLen
    /\ log.result = "failed"

\* C2: cache-hit short-circuit.  A run that starts with a file of the
\* pinned digest at archive_file returns Ok from download_sources with no
\* transfer started, the file never opened for writing, its content as it
\* was.
C2_CacheHit ==
    Started /\ Pinned(start.archive_file)
        => /\ log.fetch = "hit"
           /\ log.netCalls = 0
           /\ log.cacheOpens = 0
           /\ log.received = <<>>
           /\ archive_file = start.archive_file

\* the cache is hit while the URL serves something else
C2_Witness ==
    /\ Started
    /\ Pinned(start.archive_file)
    /\ log.fetch = "hit"
    /\ start.remote # SourceBytes
    /\ pc = "unpack_archive"

\* C3: full rewrite on a cache miss.  A run that starts with no file, or
\* a file of another digest, at archive_file starts one download, and
\* from the moment the transfer is complete the file holds exactly the
\* bytes downloaded: nothing of the previous content is left in it.
C3_FullRewrite ==
    Started /\ ~Pinned(start.archive_file)
        => /\ log.netCalls = 1
           /\ log.cacheOpens = 1
           /\ log.fetch # "hit"
           /\ TransferComplete => archive_file = CacheFile(log.received)

\* a shorter body than the stale cache file has been downloaded over it
C3_Witness ==
    /\ Started
    /\ start.archive_file.exists
    /\ ~Pinned(start.archive_file)
    /\ log.fetch \in {"downloaded", "mismatch"}
    /\ Len(log.received) < Len(start.archive_file.data)
    /\ log.received # <<>>

\* the stages after download_sources
AfterFetch == {"unpack", "build", "bindings", "link"}

\* C4: the file left by a download that failed the digest comparison has
\* another digest than the pinned one when the next run starts; a run
\* that starts with such a file (that run, or any later one) misses the
\* cache, downloads again, and download_sources returns Ok only with the
\* pinned digest in the file; and whenever unpack_archive has been
\* started the cache file has the pinned digest.
C4_NoTaintedCache ==
    /\ Started /\ start.prevFetch = "mismatch"
           => start.archive_file.exists /\ ~Pinned(start.archive_file)
    /\ Started /\ ~Pinned(start.archive_file)
           => /\ log.fetch # "hit"
              /\ log.netCalls = 1
              /\ log.fetch = "downloaded" => Pinned(archive_file)
    /\ (pc \in {"unpack_archive", "unpack_entry"}
            \/ \E k \in 1..Len(log.stages) : log.stages[k] \in AfterFetch)
           => Pinned(archive_file)

\* the run after a digest mismatch downloaded again and reached unpack
C4_Witness ==
    /\ Started
    /\ start.prevFetch = "mismatch"
    /\ start.archive_file.exists
    /\ log.fetch = "downloaded"
    /\ log.unpacked

\* the file entries the loop visits
FileEntries(arc) == {i \in Later(arc) : ~is_dir(arc[i].name)}

\* entry i is the last file entry of the archive with its destination
LastOfItsPath(arc, i) ==
    \A j \in FileEntries(arc) : j > i => DstOf(arc, j) # DstOf(arc, i)

\* no two file entries of different content have the same destination
NoShadowing(arc) ==
    \A i, j \in FileEntries(arc) :
        DstOf(arc, i) = DstOf(arc, j) => arc[i].data = arc[j].data

\* the path p is in the tree t
In(t, p) == p \in DOMAIN t /\ Exists(t, p)

\* C5 (as stated): unpack idempotence for every archive.  In a run that
\* follows a run whose unpack_archive returned Ok, unpack_archive removes
\* no file and creates no file.
C5_Original ==
    Started /\ start.prevUnpacked => log.removed = 0 /\ log.created = 0

\* C5 (amended): unpack idempotence for every archive in which no two
\* file entries of different content have the same destination path.  In
\* a run that follows a run whose unpack_archive returned Ok,
\* unpack_archive removes no file, creates no file and leaves the tree as
\* it was.
C5_Idempotent ==
    Started /\ start.prevUnpacked /\ NoShadowing(archive)
        => /\ log.removed = 0
           /\ log.created = 0
           /\ tree = start.tree

\* a second unpack of an archive of two files has returned Ok over the
\* files the first one left
C5_Witness ==
    /\ Started
    /\ start.prevUnpacked
    /\ log.unpacked
    /\ NoShadowing(archive)
    /\ Cardinality(FileEntries(archive)) = 2
    /\ \A i \in FileEntries(archive) :
           tree[DstOf(archive, i)] = FileNode(archive[i].data)

\* the destination of entry i held a file of another content when the
\* run started
Diverged(i) ==
    /\ start.tree[DstOf(archive, i)].kind = "file"
    /\ start.tree[DstOf(archive, i)].data # archive[i].data

\* the destination of entry i holds a file with the digest of the entry
Converged(i) ==
    /\ tree[DstOf(archive, i)].kind = "file"
    /\ Digest(tree[DstOf(archive, i)].data) = Digest(archive[i].data)

\* C6 (as stated): convergence after divergence for every file entry.
\* When unpack_archive has returned Ok, every file entry whose
\* destination held a different content has its whole content there.
C6_Original ==
    Started /\ log.unpacked
        => \A i \in FileEntries(archive) : Diverged(i) => Converged(i)

\* C6 (amended): convergence after divergence for every file entry that
\* no later file entry of the archive shares its destination path with.
\* When unpack_archive has returned Ok, every such entry whose
\* destination held a different content has its whole content there.
C6_Converges ==
    Started /\ log.unpacked
        => \A i \in FileEntries(archive) :
               Diverged(i) /\ LastOfItsPath(archive, i) => Converged(i)

\* a longer file of another content was replaced by the entry's bytes
C6_Witness ==
    /\ Started
    /\ log.unpacked
    /\ log.removed > 0
    /\ \E i \in FileEntries(archive) :
           /\ Diverged(i)
           /\ LastOfItsPath(archive, i)
           /\ archive[i].data # <<>>
           /\ Len(start.tree[DstOf(archive, i)].data) > Len(archive[i].data)
           /\ tree[DstOf(archive, i)] = FileNode(archive[i].data)

RECURSIVE StartsWith(_, _)
\* the name begins with the characters of pre
StartsWith(name, pre) ==
    \/ pre = <<>>
    \/ /\ name # <<>>
       /\ Head(name) = Head(pre)
       /\ StartsWith(Tail(name), Tail(pre))

RECURSIVE Without(_, _)
\* the name with the characters of pre taken from its front
Without(name, pre) ==
    IF pre = <<>> THEN name ELSE Without(Tail(name), Tail(pre))

\* entry i is below the top-level segment of the first entry
Rooted(arc, i) == StartsWith(arc[i].name, FirstSegment(arc[1].name) \o <<"/">>)

\* destinationDir joined with the name of entry i without that segment
Stripped(arc, i) ==
    Components(Without(arc[i].name, FirstSegment(arc[1].name) \o <<"/">>))

SrcAC == <<<<"s", "r", "c">>, <<"a", ".", "c">>>>

\* C7: root-prefix stripping.  Every entry after the first that the loop
\* has dealt with, and that lies below the first entry's top-level
\* segment, is at destinationDir joined with its name without that
\* segment.  When the archive projectname-v1.0/, projectname-v1.0/src/a.c
\* is unpacked, src/a.c holds the entry and nothing is below
\* destinationDir/projectname-v1.0.
C7_RootStripped ==
    /\ \A i \in 2..Len(archive) :
           i < zip.i /\ Rooted(archive, i) => In(tree, Stripped(archive, i))
    /\ archive = ArcProject
           => \A p \in DOMAIN tree : p # <<>> => p[1] # ProjectName
    /\ archive = ArcProject /\ log.unpacked
           => In(tree, SrcAC) /\ tree[SrcAC] = FileNode(ArcProject[2].data)

\* the project archive unpacked into a destination that did not exist
C7_Witness ==
    /\ archive = ArcProject
    /\ log.unpacked
    /\ start.tree[<<>>].kind = "none"
    /\ run = 1
    /\ In(tree, SrcAC)
    /\ log.created = 1

XTxt == <<<<"x", ".", "t", "x", "t">>>>

\* the archive holds one file, x.txt, with the content "hello"
HoldsXTxt(arc) ==
    \E i \in 1..Len(arc) :
        /\ ~is_dir(arc[i].name)
        /\ <<Components(arc[i].name)[Len(Components(arc[i].name))]>> = XTxt
        /\ arc[i].data = Hello
        /\ \A j \in 1..Len(arc) : j # i => is_dir(arc[j].name)

\* the run wrote neither the cache file nor anything below source_dir
NoWrites ==
    /\ log.netCalls = 0
    /\ log.cacheOpens = 0
    /\ log.removed = 0
    /\ log.created = 0
    /\ log.mkdirs = 0
    /\ archive_file = start.archive_file
    /\ tree = start.tree

\* C8 (as stated): for an archive holding the one file x.txt with the
\* content "hello", once unpack_archive has returned Ok
\* destinationDir/x.txt holds exactly "hello", and a run after a
\* successful run writes nothing: not the cache, not the tree, not the
\* bindings.
C8_Original ==
    HoldsXTxt(archive)
        => /\ log.unpacked => In(tree, XTxt) /\ tree[XTxt] = FileNode(Hello)
           /\ Started /\ start.prevResult = "ok"
                  => NoWrites /\ log.bindgens = 0

\* C8 (amended): for the archive whose first entry is the root directory
\* and whose second entry is x.txt below it with the content "hello",
\* once unpack_archive has returned Ok destinationDir/x.txt holds exactly
\* "hello"; a run after a successful run writes neither the cache file
\* nor the source tree, and when it succeeds it has built and generated
\* the bindings once more.
C8_EndToEnd ==
    archive = ArcFixture
        => /\ log.unpacked => In(tree, XTxt) /\ tree[XTxt] = FileNode(Hello)
           /\ Started /\ start.prevResult = "ok" => NoWrites
           /\ Started /\ start.prevResult = "ok" /\ log.result = "ok"
                  => log.builds = 1 /\ log.bindgens = 1

\* the second of two successful runs over the fixture, the first of which
\* downloaded the archive and wrote x.txt
C8_Witness ==
    /\ archive = ArcFixture
    /\ run = 2
    /\ start.prevResult = "ok"
    /\ start.prevFetch = "downloaded"
    /\ log.result = "ok"
    /\ In(tree, XTxt)
    /\ tree[XTxt] = FileNode(Hello)

\* the run has ended
Ended == log.result \in {"ok", "failed"}

Has(seq, x) == \E k \in 1..Len(seq) : seq[k] = x

\* the previous run succeeded while the URL served the genuine archive,
\* and the URL serves other content when this run starts
AlteredAfterSuccess ==
    /\ Started
    /\ start.prevResult = "ok"
    /\ start.prevGenuine
    /\ Digest(start.remote) # SOURCE_DIGEST

\* C9 (as stated): in a run after a successful run, started after the
\* content behind the URL was altered, download_sources ends with a
\* digest mismatch and unpack_archive is never started.
C9_Original ==
    AlteredAfterSuccess /\ log.fetch # "none"
        => log.fetch = "mismatch" /\ ~Has(log.stages, "unpack")

\* C9 (amended): a run after a successful run finds the cache file valid
\* and takes the cache hit whatever the URL serves by then: no transfer
\* is started, no mismatch is found, and unpack_archive is started.
\* Altered content is found out only by a run that downloads it (the
\* cache file missing or of another digest): that run ends with a digest
\* mismatch once the body has arrived, and never starts unpack_archive.
C9_TamperAfterSuccess ==
    /\ Started /\ start.prevResult = "ok"
           => /\ log.fetch = "hit"
              /\ log.netCalls = 0
              /\ pc # "idle" \/ Has(log.stages, "unpack")
    /\ Started /\ Ended /\ ~Pinned(start.archive_file)
               /\ Digest(start.remote) # SOURCE_DIGEST
           => /\ log.fetch \in {"mismatch", "error"}
              /\ ~Has(log.stages, "unpack")
    /\ log.fetch = "mismatch"
           => log.received = start.remote /\ log.result = "failed"

\* after a successful run the content behind the URL was altered, and the
\* next run took the cache hit and succeeded
C9_Witness ==
    /\ AlteredAfterSuccess
    /\ start.prevFetch = "downloaded"
    /\ log.fetch = "hit"
    /\ log.result = "ok"

IsPrefix(s, t) == Len(s) <= Len(t) /\ SubSeq(t, 1, Len(s)) = s

AllStages == <<"fetch", "unpack", "build", "bindings", "link">>

\* C10: stage gating.  The stages of a run start in the order fetch,
\* unpack, build, bindings, link; a stage starts only when every stage
\* before it has returned Ok; a run that failed is over (the script is
\* not inside any stage), with its last stage the one that failed and no
\* link directive emitted; the builder and the binding generator are
\* called at most once in a run, and exactly once in a successful run,
\* also when the cache was hit and nothing was unpacked anew.
C10_StageGating ==
    /\ IsPrefix(log.stages, AllStages)
    /\ IsPrefix(log.done, log.stages)
    /\ Len(log.stages) <= Len(log.done) + 1
    /\ log.builds <= 1 /\ log.bindgens <= 1 /\ log.links <= 1
    /\ log.builds = (IF Has(log.stages, "build") THEN 1 ELSE 0)
    /\ log.bindgens = (IF Has(log.stages, "bindings") THEN 1 ELSE 0)
    /\ log.links = (IF Has(log.stages, "link") THEN 1 ELSE 0)
    /\ log.result = "failed"
           => /\ pc = "idle"
              /\ Len(log.stages) = Len(log.done) + 1
              /\ log.links = 0
    /\ log.result = "ok"
           => /\ pc = "idle"
              /\ log.done = AllStages
              /\ log.builds = 1 /\ log.bindgens = 1 /\ log.links = 1
    /\ pc = "idle" => log.result # "running"

\* a successful run that hit the cache and rewrote nothing, after a run
\* that the builder failed
C10_Witness ==
    /\ log.result = "ok"
    /\ log.fetch = "hit"
    /\ log.created = 0
    /\ log.bindgens = 1
    /\ start.prevResult = "failed"
    /\ start.prevUnpacked

\* the directories unpack_archive makes sure of: source_dir, the
\* destination of every directory entry, the parents of every destination
TargetDirs(arc) ==
    {<<>>}
        \cup {DstOf(arc, i) : i \in {j \in Later(arc) : is_dir(arc[j].name)}}
        \cup UNION {Ancestors(Parent(DstOf(arc, i))) :
                        i \in {j \in Later(arc) : DstOf(arc, j) # <<>>}}

\* every later entry is below the root segment, and no file entry has the
\* destination of a directory
Unpackable(arc) ==
    /\ \A i \in 2..Len(arc) : CanSlice(RootFile(arc), arc[i].name)
    /\ \A i \in FileEntries(arc) : DstOf(arc, i) \notin TargetDirs(arc)

\* the run follows a failed or interrupted run, the URL serves the genuine
\* archive, and no I/O fault has hit this run
Healing ==
    /\ Started
    /\ start.prevResult = "failed"
    /\ start.remote = SourceBytes
    /\ log.fault = "none"

\* entry i has its whole content at its destination
Unpacked(i) == tree[DstOf(archive, i)] = FileNode(archive[i].data)

\* C11 (as stated): self-healing re-run for every archive.  A run without
\* a fault that follows a failed or interrupted run, with the genuine
\* archive behind the URL, does not fail in download_sources or
\* unpack_archive, and when unpack_archive has returned Ok the cache file
\* has the pinned digest and every file entry has its content at its
\* destination.
C11_Original ==
    Healing
        => /\ log.fetch \notin {"mismatch", "error"}
           /\ log.result = "failed" => Has(log.done, "unpack")
           /\ log.unpacked
                  => /\ Pinned(archive_file)
                     /\ \A i \in FileEntries(archive) : Unpacked(i)

\* C11 (amended): self-healing re-run for every archive whose later
\* entries are below the root segment and in which no file entry has the
\* destination of a directory.  A run without a fault that follows a
\* failed or interrupted run, with the genuine archive behind the URL,
\* does not fail in download_sources or unpack_archive, and when
\* unpack_archive has returned Ok the cache file has the pinned digest
\* and every file entry that no later file entry shares its destination
\* with has its content at its destination.
C11_SelfHealing ==
    Healing /\ Unpackable(archive)
        => /\ log.fetch \notin {"mismatch", "error"}
           /\ log.result = "failed" => Has(log.done, "unpack")
           /\ log.unpacked
                  => /\ Pinned(archive_file)
                     /\ \A i \in FileEntries(archive) :
                            LastOfItsPath(archive, i) => Unpacked(i)

\* the run before was cut while it copied one file and before it came to
\* another; this run replaced the partial file and wrote the missing one
C11_Witness ==
    /\ Healing
    /\ Unpackable(archive)
    /\ log.unpacked
    /\ log.removed > 0
    /\ \E i, j \in FileEntries(archive) :
           /\ Diverged(i)
           /\ archive[i].data # <<>>
           /\ ~Exists(start.tree, DstOf(archive, j))
           /\ Unpacked(i)
           /\ Unpacked(j)

\* C12: watch signals.  Every run has the rerun-if-changed line of
\* archive_file from its start, at a cache hit and at a download alike,
\* and when unpack_archive has returned Ok there is one for the
\* destination of every file entry the loop visited, whether the file was
\* written, replaced or left as it was.
C12_WatchSignals ==
    /\ Started => ArchiveSignal \in log.signals
    /\ log.unpacked
           => \A i \in FileEntries(archive) : DstOf(archive, i) \in log.signals

\* at a cache hit, unpack_archive has left every file as it was, and the
\* files are watched
C12_Witness ==
    /\ log.unpacked
    /\ log.fetch = "hit"
    /\ log.created = 0
    /\ log.removed = 0
    /\ Cardinality(FileEntries(archive)) = 2
    /\ log.signals =
           {ArchiveSignal} \cup {DstOf(archive, i) : i \in FileEntries(archive)}

\* the bytes calc_hash has read from its stream so far
Consumed == SubSeq(reader.stream, 1, Len(reader.stream) - Len(reader.rest))

\* C13: chunking invariance of calc_hash.  However the reads split the
\* stream into non-empty chunks, the hasher has been fed the bytes read so
\* far, in order and each once; when calc_hash returns Ok the whole stream
\* has been read and the digest is that of the stream hashed in one
\* piece, which is also what reads of a full buffer give; and after a
\* failed read calc_hash returns the error, never Ok.
C13_ChunkingInvariance ==
    /\ reader.result \in {"reading", "ok"}
           => /\ hasher = Update(Sha256New, Consumed)
              /\ Consumed \o reader.rest = reader.stream
    /\ reader.result = "ok"
           => /\ reader.rest = <<>>
              /\ Finalize(hasher) = Digest(reader.stream)
              /\ hasher = calc_hash(reader.stream)
    /\ reader.failed <=> reader.result = "err"

\* a stream longer than the buffer was returned one byte per read
C13_Witness ==
    /\ reader.result = "ok"
    /\ Len(reader.stream) = MaxStream
    /\ Len(reader.stream) > BufLen
    /\ reader.reads = MaxStream + 1
    /\ Finalize(hasher) = Digest(reader.stream)

\* the hasher of download_sources has absorbed the bytes s and no other
HashedIs(s) == hasher = Update(Sha256New, s)

\* easy.perform() is running, or line 148
InTransfer == pc \in {"perform", "update", "unlock", "write_all", "finalize"}

\* C14 (as stated): per-chunk ordering, write then hash.  At every point
\* of a transfer the bytes hashed are a prefix of the bytes written to
\* the file.
C14_Original ==
    InTransfer
        => \E k \in 0..Len(log.written) : HashedIs(SubSeq(log.written, 1, k))

\* C14 (amended): per-chunk ordering, hash then write.  Between two
\* callbacks, and after the last, the bytes hashed are the bytes written;
\* inside a callback the chunk is hashed first, so that from the update
\* to the return of write_all the bytes hashed are the bytes written
\* followed by the chunk: the bytes written are at every point a prefix
\* of the bytes hashed.  A write_all that fails leaves fewer bytes
\* written than were handed to the callback and hashed.
C14_HashThenWrite ==
    /\ pc \in {"perform", "update", "finalize"} => HashedIs(log.written)
    /\ pc \in {"unlock", "write_all"}
           => /\ HashedIs(log.written \o chunk)
              /\ chunk # <<>>
    /\ InTransfer => IsPrefix(log.written, log.received)
    /\ log.fault = "write"
           => /\ IsPrefix(log.written, log.received)
              /\ Len(log.written) < Len(log.received)

\* the second chunk of a body has been hashed and is not yet written
C14_Witness ==
    /\ pc = "write_all"
    /\ log.written # <<>>
    /\ chunk # <<>>
    /\ HashedIs(log.written \o chunk)
    /\ archive_file.data = log.written

\* C16: the locking of the hasher.  The lock is held exactly from lock()
\* to the end of the statement, in the callback (around the update) and
\* at line 148 (around the read); it is free whenever a callback has
\* returned, so that the next callback and the finalization acquire it;
\* and the finalization finds in the hasher every chunk handed to the
\* callback, and compares their digest.
C16_Locking ==
    /\ mutex = "locked" <=> pc \in {"update", "unlock", "finalize"}
    /\ pc = "perform" /\ transfer.body # <<>> => ENABLED CallbackLock(1)
    /\ pc = "perform" /\ transfer.body = <<>> => ENABLED FinalizeLock
    /\ pc = "finalize"
           => /\ HashedIs(log.received)
              /\ chunk = <<>>
    /\ log.digest # <<>> => log.digest = <<Digest(log.received)>>

\* the finalization holds the lock after the callbacks of a whole body
C16_Witness ==
    /\ pc = "finalize"
    /\ mutex = "locked"
    /\ Len(log.received) = MaxLen
    /\ log.received = start.remote
    /\ HashedIs(log.received)

\* C15: no automatic retry.  A run starts at most one transfer.  When the
\* transfer fails (a transport error, or a body that is not the archive,
\* such as the page of an HTTP error status) the run has failed with that
\* one transfer, download_sources has not returned Ok, and no later
\* stage was started.
C15_NoRetry ==
    /\ log.netCalls <= 1
    /\ log.fetch \in {"error", "mismatch"}
           => /\ log.netCalls = 1
              /\ log.result = "failed"
              /\ pc = "idle"
              /\ transfer = NoTransfer
              /\ log.stages = <<"fetch">>
              /\ log.done = <<>>
              /\ ~log.unpacked

\* the connection was reset after a part of the body, and the run ended
C15_Witness ==
    /\ log.fetch = "error"
    /\ log.fault = "transport"
    /\ log.received # <<>>
    /\ Len(log.received) < Len(start.remote)
    /\ log.netCalls = 1
    /\ log.result = "failed"
    /\ pc = "idle"

\* the destinations of the file entries the loop visits
FileDsts(arc) == {DstOf(arc, i) : i \in FileEntries(arc)}

\* a tree an unpack of arc may have left when it was cut: directories
\* where arc has directories, files (of any content) where it has files
LeftByUnpack(t, arc) ==
    \A p \in DOMAIN t :
        /\ t[p].kind = "dir" => p \in TargetDirs(arc)
        /\ t[p].kind = "file" => p \in FileDsts(arc)

\* the directories of the tree
Dirs(t) == {p \in DOMAIN t : t[p].kind = "dir"}

\* a run without an I/O fault, of an unpackable archive, that started over
\* such a tree
OverLeftDirs ==
    /\ Started
    /\ LeftByUnpack(start.tree, archive)
    /\ Unpackable(archive)
    /\ log.fault = "none"

\* C17: idempotent directory handling.  For an archive that unpacks into
\* an empty destination, an unpack_archive without an I/O fault over any
\* subset of its directories (and of its files, as a cut unpack leaves
\* them) does not fail, and when it has returned Ok the directories are
\* those of the archive, whatever subset was there: the same as after an
\* unpack into the empty destination, which is one of the subsets.  It
\* has created the directories that were missing and no other.
C17_DirectoriesIdempotent ==
    OverLeftDirs
        => /\ log.result = "failed" => Has(log.done, "unpack")
           /\ Dirs(start.tree) \subseteq Dirs(tree)
           /\ log.unpacked
                  => /\ Dirs(tree) = TargetDirs(archive)
                     /\ log.mkdirs =
                            Cardinality(TargetDirs(archive) \ Dirs(start.tree))

\* the directory of a directory entry was there and its file was not:
\* unpack_archive has created no directory and has written the file
C17_Witness ==
    /\ OverLeftDirs
    /\ log.unpacked
    /\ log.mkdirs = 0
    /\ log.created > 0
    /\ \E i \in Later(archive) :
           /\ is_dir(archive[i].name)
           /\ DstOf(archive, i) # <<>>
           /\ start.tree[DstOf(archive, i)].kind = "dir"
    /\ Dirs(tree) = TargetDirs(archive)

\* C18: the postcondition of download_sources.  Once it has returned Ok,
\* at the cache hit or after the download, archive_file exists and its
\* content has the pinned digest.  The digest a download compares is the
\* digest of the bytes it has written, and they are the content of the
\* file; it returns Ok only when that digest is the pinned one.
C18_FetchPostcondition ==
    /\ log.fetch \in {"hit", "downloaded"}
           => /\ archive_file.exists
              /\ Digest(archive_file.data) = SOURCE_DIGEST
    /\ log.digest # <<>>
           => /\ log.fetch \in {"downloaded", "mismatch"}
              /\ log.digest = <<Digest(log.written)>>
              /\ archive_file = CacheFile(log.written)
    /\ log.fetch = "downloaded" => log.digest = <<SOURCE_DIGEST>>
    /\ log.fetch = "hit" => log.digest = <<>> /\ log.written = <<>>

\* a download over a file of another content and of the same length
\* returned Ok, and unpack_archive has read the file
C18_Witness ==
    /\ log.fetch = "downloaded"
    /\ start.archive_file.exists
    /\ Len(start.archive_file.data) = MaxLen
    /\ start.archive_file.data # SourceBytes
    /\ log.written = SourceBytes
    /\ archive_file = CacheFile(SourceBytes)
    /\ log.digest = <<SOURCE_DIGEST>>
    /\ log.unpacked

\* the destination of the entry the loop of unpack_archive is at
AtDst == DstOf(archive, zip.i)

\* the loop of unpack_archive is at a file entry, and the file at its
\* destination has another digest than the entry
AtStaleFile ==
    /\ pc = "unpack_entry"
    /\ ~is_dir(archive[zip.i].name)
    /\ In(tree, AtDst)
    /\ tree[AtDst].kind = "file"
    /\ Digest(tree[AtDst].data) # Digest(archive[zip.i].data)

\* C19: the frame of unpack_archive.  A step removes a file only when
\* the loop is at a file entry whose destination holds a file of another
\* digest, and it removes that file only; a file or directory that
\* exists is changed by a step only when it is that file.  So whatever
\* exists at a path that is not the destination of a file entry (a
\* left-over of another version, a directory) stays as it is.
C19_UnpackFrame ==
    [][/\ run' = run /\ log'.removed # log.removed
              => AtStaleFile /\ log'.removed = log.removed + 1
       /\ \A p \in DOMAIN tree :
              Exists(tree, p) /\ tree'[p] # tree[p]
                  => AtStaleFile /\ p = AtDst
       /\ \A p \in DOMAIN tree :
              Exists(tree, p) /\ p \notin FileDsts(archive)
                  => tree'[p] = tree[p]]_vars

\* unpack_archive has replaced a file of another content next to a
\* left-over file, which is as it was
C19_Witness ==
    /\ log.unpacked
    /\ log.removed > 0
    /\ start.tree[LeftOver].kind = "file"
    /\ tree[LeftOver] = start.tree[LeftOver]
    /\ \E i \in FileEntries(archive) : Diverged(i) /\ Unpacked(i)

====
